---- MODULE Spec2Model ----
(***************************************************************************)
(* The GitHub and Jira MCP tool servers of goose-mcp                       *)
(* (crates/goose-mcp/src/github/mod.rs, crates/goose-mcp/src/jira/mod.rs). *)
(*                                                                         *)
(* Texts (URLs, response bodies, error messages, tool payloads) are        *)
(* sequences of lexemes: a slash, a bracket, a quoted string, a blank, a   *)
(* line break ... each is one element, so that formatting, parsing and     *)
(* trimming are computed on the text and not assumed.                      *)
(***************************************************************************)
EXTENDS Integers, Sequences, FiniteSets, TLC

VARIABLES env, github, jira, calls

vars == <<env, github, jira, calls>>

\* ------------------------------------------------------------------ bounds
\* Longest comment array an upstream response carries.
MaxComments == 2
\* Most trailing slashes on a configured JIRA_INSTANCE_URL.
MaxTrailingSlashes == 2
\* Number of tool invocations that may be in flight at once (SpecConc).
NumCalls == 2

\* ------------------------------------------------------------ Option<T>
None == <<>>
Some(x) == <<x>>
IsSome(o) == Len(o) = 1
Unwrap(o) == o[1]

\* std::env::var(a).or_else(|_| std::env::var(b)).ok()
OrElse(a, b) == IF IsSome(a) THEN a ELSE b

\* Option::unwrap_or
UnwrapOr(o, d) == IF IsSome(o) THEN o[1] ELSE d

\* ------------------------------------------------------ serde_json::Value
\* A value is <<tag, payload>>.  An object's payload is its members as a
\* sequence of <<key, value>> in key order without duplicate keys (a map).
JNull == <<"null", "null">>
JBool(b) == <<"bool", b>>
JNum(n) == <<"num", n>>
JStr(s) == <<"str", s>>
JArr(items) == <<"arr", items>>
JObj(members) == <<"obj", members>>
Tag(v) == v[1]
Payload(v) == v[2]

\* The strings that occur as keys or string values in the modelled texts,
\* in lexicographic (byte) order.
StrLits == <<"Bot", "User", "body", "fields", "id", "login", "summary", "type", "user">>
StrRank(s) == CHOOSE i \in 1..Len(StrLits) : StrLits[i] = s
StrSet == {StrLits[i] : i \in 1..Len(StrLits)}

Quote(s) == "\"" \o s \o "\""
StrLex == {Quote(s) : s \in StrSet}
Unquote(l) == CHOOSE s \in StrSet : Quote(s) = l
NumLex == {"1", "2", "3", "4", "5", "6", "7"}
BoolLex == {"true", "false"}
Ws == {" ", "  ", "\n"}

\* Map::insert: the member list with key k bound to v, kept in key order;
\* a key already present has its value replaced.
RECURSIVE MapInsert(_, _, _)
MapInsert(members, k, v) ==
    IF members = <<>> THEN << <<k, v>> >>
    ELSE IF members[1][1] = k THEN << <<k, v>> >> \o Tail(members)
    ELSE IF StrRank(k) < StrRank(members[1][1]) THEN << <<k, v>> >> \o members
    ELSE << members[1] >> \o MapInsert(Tail(members), k, v)

\* Value::get(&str): a member of an object, None for any other value or a
\* missing key.
ValueGet(v, k) ==
    IF Tag(v) # "obj" THEN None
    ELSE LET hit == {i \in 1..Len(Payload(v)) : Payload(v)[i][1] = k}
         IN  IF hit = {} THEN None ELSE Some(Payload(v)[CHOOSE i \in hit : TRUE][2])

\* Value::as_str
AsStr(v) == IF Tag(v) = "str" THEN Some(Payload(v)) ELSE None

\* ------------------------------------------------- serde_json::from_str
\* A parse step yields <<ok, value, next position>>.
ParseFail == <<FALSE, JNull, 0>>

RECURSIVE SkipWs(_, _)
SkipWs(t, p) == IF p <= Len(t) /\ t[p] \in Ws THEN SkipWs(t, p + 1) ELSE p

RECURSIVE ParseValue(_, _)
RECURSIVE ParseElements(_, _, _)
RECURSIVE ParseMembers(_, _, _)

ParseValue(t, p0) ==
    LET p == SkipWs(t, p0)
    IN  IF p > Len(t) THEN ParseFail
        ELSE IF t[p] = "null" THEN <<TRUE, JNull, p + 1>>
        ELSE IF t[p] \in BoolLex THEN <<TRUE, JBool(t[p]), p + 1>>
        ELSE IF t[p] \in NumLex THEN <<TRUE, JNum(t[p]), p + 1>>
        ELSE IF t[p] \in StrLex THEN <<TRUE, JStr(Unquote(t[p])), p + 1>>
        ELSE IF t[p] = "[" THEN
            LET q == SkipWs(t, p + 1)
            IN  IF q <= Len(t) /\ t[q] = "]" THEN <<TRUE, JArr(<<>>), q + 1>>
                ELSE ParseElements(t, q, <<>>)
        ELSE IF t[p] = "{" THEN
            LET q == SkipWs(t, p + 1)
            IN  IF q <= Len(t) /\ t[q] = "}" THEN <<TRUE, JObj(<<>>), q + 1>>
                ELSE ParseMembers(t, q, <<>>)
        ELSE ParseFail

ParseElements(t, p, acc) ==
    LET r == ParseValue(t, p)
    IN  IF ~r[1] THEN ParseFail
        ELSE LET q == SkipWs(t, r[3])
             IN  IF q > Len(t) THEN ParseFail
                 ELSE IF t[q] = "," THEN ParseElements(t, q + 1, Append(acc, r[2]))
                 ELSE IF t[q] = "]" THEN <<TRUE, JArr(Append(acc, r[2])), q + 1>>
                 ELSE ParseFail

ParseMembers(t, p0, acc) ==
    LET p == SkipWs(t, p0)
    IN  IF p > Len(t) \/ ~(t[p] \in StrLex) THEN ParseFail
        ELSE LET c == SkipWs(t, p + 1)
             IN  IF c > Len(t) \/ t[c] # ":" THEN ParseFail
                 ELSE LET r == ParseValue(t, c + 1)
                      IN  IF ~r[1] THEN ParseFail
                          ELSE LET q == SkipWs(t, r[3])
                                   m == MapInsert(acc, Unquote(t[p]), r[2])
                               IN  IF q > Len(t) THEN ParseFail
                                   ELSE IF t[q] = "," THEN ParseMembers(t, q + 1, m)
                                   ELSE IF t[q] = "}" THEN <<TRUE, JObj(m), q + 1>>
                                   ELSE ParseFail

\* serde_json::from_str::<Value>: one value, then only white space to the
\* end of the text.  Yields <<ok, value>>.
from_str(t) ==
    LET r == ParseValue(t, 1)
    IN  IF r[1] /\ SkipWs(t, r[3]) > Len(t) THEN <<TRUE, r[2]>> ELSE <<FALSE, JNull>>

\* ------------------------------------------ serde_json::to_string_pretty
Indent(d) == [i \in 1..d |-> "  "]

RECURSIVE Pretty(_, _)
RECURSIVE PrettyItems(_, _, _)
RECURSIVE PrettyMembers(_, _, _)

Pretty(v, d) ==
    IF Tag(v) = "null" THEN <<"null">>
    ELSE IF Tag(v) \in {"bool", "num"} THEN <<Payload(v)>>
    ELSE IF Tag(v) = "str" THEN <<Quote(Payload(v))>>
    ELSE IF Tag(v) = "arr" THEN
        IF Payload(v) = <<>> THEN <<"[", "]">>
        ELSE <<"[">> \o PrettyItems(Payload(v), 1, d + 1) \o <<"\n">> \o Indent(d) \o <<"]">>
    ELSE
        IF Payload(v) = <<>> THEN <<"{", "}">>
        ELSE <<"{">> \o PrettyMembers(Payload(v), 1, d + 1) \o <<"\n">> \o Indent(d) \o <<"}">>

PrettyItems(items, i, d) ==
    IF i > Len(items) THEN <<>>
    ELSE (IF i > 1 THEN <<",">> ELSE <<>>) \o <<"\n">> \o Indent(d)
         \o Pretty(items[i], d) \o PrettyItems(items, i + 1, d)

PrettyMembers(members, i, d) ==
    IF i > Len(members) THEN <<>>
    ELSE (IF i > 1 THEN <<",">> ELSE <<>>) \o <<"\n">> \o Indent(d)
         \o <<Quote(members[i][1]), ":", " ">> \o Pretty(members[i][2], d)
         \o PrettyMembers(members, i + 1, d)

to_string_pretty(v) == Pretty(v, 0)

\* ------------------------------------------------------------- texts
\* Whether text sub occurs in text msg as a contiguous run.
Contains(msg, sub) ==
    \E k \in 0..(Len(msg) - Len(sub)) : SubSeq(msg, k + 1, k + Len(sub)) = sub

\* A variant that removes one trailing slash only (strip_suffix).
strip_one_slash(s) ==
    IF s # <<>> /\ s[Len(s)] = "/" THEN SubSeq(s, 1, Len(s) - 1) ELSE s

\* str::trim_end_matches('/'): every trailing slash removed.
RECURSIVE trim_end_matches(_)
trim_end_matches(s) ==
    IF s # <<>> /\ s[Len(s)] = "/" THEN trim_end_matches(SubSeq(s, 1, Len(s) - 1)) ELSE s

\* Display of reqwest::StatusCode: the number, a blank, the reason phrase.
Reason(s) ==
    CASE s = 200 -> "OK"
      [] s = 204 -> "No Content"
      [] s = 404 -> "Not Found"
      [] OTHER -> "<unknown status code>"
StatusText(s) == <<ToString(s), " ", Reason(s)>>

\* StatusCode::is_success
is_success(s) == 200 <= s /\ s < 300

\* ----------------------------------------------------- results and errors
\* Result<CallToolResult, ErrorData>: CallToolResult::success(content) or
\* ErrorData::new(code, message, None).
NoResult == [kind |-> "none", code |-> "", content |-> <<>>, message |-> <<>>]
CallToolResult_success(content) ==
    [kind |-> "Ok", code |-> "", content |-> content, message |-> <<>>]
ErrorData_new(code, message) ==
    [kind |-> "Err", code |-> code, content |-> <<>>, message |-> message]

\* Result<Value, ErrorData> of the request routines.
NoJson == [kind |-> "none", value |-> JNull, message |-> <<>>]
OkJson(v) == [kind |-> "Ok", value |-> v, message |-> <<>>]
ErrJson(message) == [kind |-> "Err", value |-> JNull, message |-> message]

\* ---------------------------------------------------------- construction
\* GithubServer::new
GithubServer_new(e) == [token |-> OrElse(e.GITHUB_TOKEN, e.GH_TOKEN)]

DefaultInstanceUrl == <<"https:", "/", "/", "jira.atlassian.com">>

\* JiraServer::new
JiraServer_new(e) ==
    [instance_url |-> trim_end_matches(UnwrapOr(e.JIRA_INSTANCE_URL, DefaultInstanceUrl)),
     token |-> OrElse(e.JIRA_PAT, e.JIRA_API_TOKEN)]

\* ------------------------------------------------------- request builders
NoReq == [method |-> "", url |-> <<>>, headers |-> {}, body |-> None]

\* A variant that attaches the header whether or not a token is configured.
AuthHeader_always(token) == {<<"Authorization", "Bearer " \o UnwrapOr(token, "")>>}

\* if let Some(token) = &self.token { req.header("Authorization", ...) }
AuthHeader(token) ==
    IF IsSome(token) THEN {<<"Authorization", "Bearer " \o Unwrap(token)>>} ELSE {}

\* RequestBuilder::json: the body is set, and Content-Type: application/json
\* is added unless the request has a Content-Type header already.
WithJson(req, body) ==
    IF IsSome(body)
    THEN [req EXCEPT !.body = body,
                     !.headers = IF \E h \in req.headers : h[1] = "Content-Type"
                                 THEN req.headers
                                 ELSE req.headers \cup {<<"Content-Type", "application/json">>}]
    ELSE req

\* GithubServer::request up to send()
GithubServer_request_build(method, url) ==
    [method |-> method, url |-> url,
     headers |-> {<<"Accept", "application/vnd.github.v3+json">>} \cup AuthHeader(github.token),
     body |-> None]

\* GithubServer::get_pr_diff up to send()
get_pr_diff_build(url) ==
    [method |-> "GET", url |-> url,
     headers |-> {<<"Accept", "application/vnd.github.v3.diff">>} \cup AuthHeader(github.token),
     body |-> None]

\* JiraServer::request up to send()
JiraServer_request_build(method, path, body) ==
    WithJson([method |-> method,
              url |-> jira.instance_url \o <<"/">> \o path,
              headers |-> {<<"Accept", "application/json">>,
                           <<"Content-Type", "application/json">>}
                          \cup AuthHeader(jira.token),
              body |-> None],
             body)

\* format!("https://api.github.com/repos/{}/{}/<kind>/{}", owner, repo, number)
GithubUrl(owner, repo, kind, number) ==
    <<"https:", "/", "/", "api.github.com", "/", "repos", "/", owner, "/", repo,
      "/", kind, "/", ToString(number)>>

\* ------------------------------------ the request routines after the read
\* GithubServer::request once status and body text are known
GithubServer_request(status, text) ==
    IF ~is_success(status)
    THEN ErrJson(<<"GitHub API Error ">> \o StatusText(status) \o <<": ">> \o text)
    ELSE LET r == from_str(text)
         IN  IF r[1] THEN OkJson(r[2])
             ELSE ErrJson(<<"Failed to parse JSON response: ", "<serde_json error>">>)

\* A variant that substitutes null for a body that does not parse.
JiraServer_request_fallback(status, text) ==
    IF ~is_success(status)
    THEN ErrJson(<<"Jira API Error ">> \o StatusText(status) \o <<": ">> \o text)
    ELSE LET r == from_str(text)
         IN  IF r[1] THEN OkJson(r[2]) ELSE OkJson(JNull)

\* JiraServer::request once status and body text are known
JiraServer_request(status, text) ==
    IF ~is_success(status)
    THEN ErrJson(<<"Jira API Error ">> \o StatusText(status) \o <<": ">> \o text)
    ELSE IF text = <<>> THEN OkJson(JNull)
    ELSE LET r == from_str(text)
         IN  IF r[1] THEN OkJson(r[2])
             ELSE ErrJson(<<"Failed to parse JSON response: ", "<serde_json error>">>)

\* A variant that drops an entry whose user.type cannot be read.
KeepComment_failclosed(comment) ==
    LET u == ValueGet(comment, "user")
        t == IF IsSome(u) THEN ValueGet(Unwrap(u), "type") ELSE None
        s == IF IsSome(t) THEN AsStr(Unwrap(t)) ELSE None
    IN  IF IsSome(s) THEN Unwrap(s) # "Bot" ELSE FALSE

\* The closure of get_comments' filter: keep unless user.type is the string
\* "Bot".
KeepComment(comment) ==
    LET u == ValueGet(comment, "user")
        t == IF IsSome(u) THEN ValueGet(Unwrap(u), "type") ELSE None
        s == IF IsSome(t) THEN AsStr(Unwrap(t)) ELSE None
    IN  IF IsSome(s) THEN Unwrap(s) # "Bot" ELSE TRUE

\* get_comments: "Filter out bot comments"
FilterComments(json) ==
    IF Tag(json) = "arr" THEN JArr(SelectSeq(Payload(json), KeepComment)) ELSE json

GithubOps == {"github_get_pr", "github_get_pr_diff", "github_get_issue", "github_get_comments"}
JiraOps == {"jira_get_issue", "jira_get_dev_status", "jira_edit_issue", "jira_add_comment"}

\* The request routine an operation awaits (get_pr_diff has its own copy).
RequestOf(op, status, text) ==
    IF op \in JiraOps THEN JiraServer_request(status, text)
    ELSE GithubServer_request(status, text)

\* A variant in which edit_issue prints the upstream value like the others.
HandlerOk_passthrough(op, json) ==
    IF op = "github_get_comments"
    THEN CallToolResult_success(<<to_string_pretty(FilterComments(json))>>)
    ELSE CallToolResult_success(<<to_string_pretty(json)>>)

\* A variant in which every printing handler filters bot entries.
HandlerOk_filterall(op, json) ==
    IF op = "jira_edit_issue"
    THEN CallToolResult_success(<< <<"Issue updated successfully.">> >>)
    ELSE CallToolResult_success(<<to_string_pretty(FilterComments(json))>>)

\* What each tool handler does with the value its request returned.
HandlerOk(op, json) ==
    IF op = "jira_edit_issue"
    THEN CallToolResult_success(<< <<"Issue updated successfully.">> >>)
    ELSE IF op = "github_get_comments"
    THEN CallToolResult_success(<<to_string_pretty(FilterComments(json))>>)
    ELSE CallToolResult_success(<<to_string_pretty(json)>>)

\* `self.request(..).await?` followed by the handler's own code
HandlerResult(op, r) ==
    IF r.kind = "Err" THEN ErrorData_new("INTERNAL_ERROR", r.message)
    ELSE HandlerOk(op, r.value)

\* -------------------------------------------------------------- inputs
\* Environments the servers are constructed in: neither token variable set,
\* only the secondary one, or both; the Jira URL unset, or set with zero to
\* MaxTrailingSlashes trailing slashes.
ConfiguredUrl == <<"https:", "/", "/", "jira.example.com", "/", "jira">>
Slashes(n) == [i \in 1..n |-> "/"]
InstanceUrls == {None} \cup {Some(ConfiguredUrl \o Slashes(n)) : n \in 0..MaxTrailingSlashes}
TokenCases == {<<None, None>>, <<None, Some("tok-secondary")>>,
               <<Some("tok-primary"), Some("tok-secondary")>>}
Environments ==
    {[GITHUB_TOKEN |-> g[1], GH_TOKEN |-> g[2], JIRA_PAT |-> g[1], JIRA_API_TOKEN |-> g[2],
      JIRA_INSTANCE_URL |-> u] : g \in TokenCases, u \in InstanceUrls}

\* Tool parameters.
Owners == {"block"}
Repos == {"goose"}
Numbers == {42}
IssueKeys == {"PROJ-1"}
IssueIds == {10001}
AppTypes == {None, Some("stash")}
DataTypes == {None, Some("repository")}
FieldMaps == {JObj(<< <<"summary", JStr("User")>> >>)}
CommentBodies == {"Bot"}
NoParams ==
    [owner |-> "", repo |-> "", number |-> 0, issue_key |-> "", issue_id |-> 0,
     application_type |-> None, data_type |-> None, fields |-> JNull, body |-> ""]

\* Upstream response bodies.  Comment entries: written by a bot, written by
\* a user, without user, user without type, user.type not a string.
EntryTexts ==
    << <<"{", "\"user\"", ":", "{", "\"login\"", ":", "\"User\"", ",", "\"type\"", ":",
         "\"Bot\"", "}", ",", "\"id\"", ":", "1", "}">>,
       <<"{", "\"id\"", ":", "2", ",", "\"user\"", ":", "{", "\"type\"", ":", "\"User\"",
         "}", "}">>,
       <<"{", "\"id\"", ":", "3", ",", "\"body\"", ":", "\"Bot\"", "}">>,
       <<"{", "\"user\"", ":", "{", "\"login\"", ":", "\"Bot\"", "}", "}">>,
       <<"{", "\"user\"", ":", "{", "\"type\"", ":", "[", "\"Bot\"", "]", "}", "}">> >>

RECURSIVE JoinEntries(_, _)
JoinEntries(ks, i) ==
    IF i > Len(ks) THEN <<>>
    ELSE (IF i > 1 THEN <<",">> ELSE <<>>) \o EntryTexts[ks[i]] \o JoinEntries(ks, i + 1)
ArrayText(ks) == <<"[">> \o JoinEntries(ks, 1) \o <<"]">>
ArrayTexts ==
    {ArrayText(ks) : ks \in UNION {[1..n -> 1..Len(EntryTexts)] : n \in 0..MaxComments}}

EmptyText == <<>>
DiffText == <<"diff --git a/x b/x", "\n", "+line">>
ObjectText ==
    <<"{", "\"user\"", ":", "{", "\"type\"", ":", "\"Bot\"", "}", ",", " ", "\"id\"", ":",
      "3", ",", "\"id\"", ":", "4", "}", "\n">>
TruncatedText == <<"{", "\"id\"", ":">>
Bodies == ArrayTexts \cup {EmptyText, DiffText, ObjectText, TruncatedText}
Statuses == {200, 204, 404}
Responses == {[status |-> s, body |-> b] : s \in Statuses, b \in Bodies}
NoResp == [status |-> 0, body |-> <<>>]

\* The responses of the concurrent specification.
ConcResponses ==
    {[status |-> 200, body |-> ArrayText(<<1>>)], [status |-> 404, body |-> ObjectText]}

\* ---------------------------------------------------------------- state
Idle ==
    [pc |-> "idle", op |-> "", params |-> NoParams, req |-> NoReq, sent |-> 0,
     resp |-> NoResp, fault |-> "none", json |-> NoJson, result |-> NoResult]

\* A handler reaches `req.send().await`: the request goes out once.
Started(op, params, req) ==
    [Idle EXCEPT !.pc = "awaitSend", !.op = op, !.params = params, !.req = req, !.sent = 1]

\* A handler returns.
Finished(c, json, result) == [c EXCEPT !.pc = "done", !.json = json, !.result = result]

InitOn(ids) ==
    /\ env \in Environments
    /\ github = GithubServer_new(env)
    /\ jira = JiraServer_new(env)
    /\ calls = [i \in ids |-> Idle]

\* ----------------------------------------------- the eight tool handlers
github_get_pr(i) ==
    /\ calls[i].pc = "idle"
    /\ \E owner \in Owners, repo \in Repos, pull_number \in Numbers :
        calls' = [calls EXCEPT ![i] =
            Started("github_get_pr",
                    [NoParams EXCEPT !.owner = owner, !.repo = repo, !.number = pull_number],
                    GithubServer_request_build("GET",
                        GithubUrl(owner, repo, "pulls", pull_number)))]
    /\ UNCHANGED <<env, github, jira>>

github_get_pr_diff(i) ==
    /\ calls[i].pc = "idle"
    /\ \E owner \in Owners, repo \in Repos, pull_number \in Numbers :
        calls' = [calls EXCEPT ![i] =
            Started("github_get_pr_diff",
                    [NoParams EXCEPT !.owner = owner, !.repo = repo, !.number = pull_number],
                    get_pr_diff_build(GithubUrl(owner, repo, "pulls", pull_number)))]
    /\ UNCHANGED <<env, github, jira>>

github_get_issue(i) ==
    /\ calls[i].pc = "idle"
    /\ \E owner \in Owners, repo \in Repos, issue_number \in Numbers :
        calls' = [calls EXCEPT ![i] =
            Started("github_get_issue",
                    [NoParams EXCEPT !.owner = owner, !.repo = repo, !.number = issue_number],
                    GithubServer_request_build("GET",
                        GithubUrl(owner, repo, "issues", issue_number)))]
    /\ UNCHANGED <<env, github, jira>>

github_get_comments(i) ==
    /\ calls[i].pc = "idle"
    /\ \E owner \in Owners, repo \in Repos, number \in Numbers :
        calls' = [calls EXCEPT ![i] =
            Started("github_get_comments",
                    [NoParams EXCEPT !.owner = owner, !.repo = repo, !.number = number],
                    GithubServer_request_build("GET",
                        GithubUrl(owner, repo, "issues", number) \o <<"/", "comments">>))]
    /\ UNCHANGED <<env, github, jira>>

\* format!("rest/api/2/issue/{}?expand=names,renderedFields", issue_key)
GetIssuePath(issue_key) ==
    <<"rest", "/", "api", "/", "2", "/", "issue", "/", issue_key,
      "?", "expand=names,renderedFields">>

jira_get_issue(i) ==
    /\ calls[i].pc = "idle"
    /\ \E issue_key \in IssueKeys :
        calls' = [calls EXCEPT ![i] =
            Started("jira_get_issue", [NoParams EXCEPT !.issue_key = issue_key],
                    JiraServer_request_build("GET", GetIssuePath(issue_key), None))]
    /\ UNCHANGED <<env, github, jira>>

\* A variant whose data type defaults to the application type's default.
DevStatusPath_samedefault(issue_id, application_type, data_type) ==
    LET app_type == UnwrapOr(application_type, "github")
        dtype == UnwrapOr(data_type, "github")
    IN  <<"rest", "/", "dev-status", "/", "1.0", "/", "issue", "/", "detail",
          "?", "issueId=", ToString(issue_id), "&", "applicationType=", app_type,
          "&", "dataType=", dtype>>

\* get_dev_status: the two defaults and the path
DevStatusPath(issue_id, application_type, data_type) ==
    LET app_type == UnwrapOr(application_type, "github")
        dtype == UnwrapOr(data_type, "pullrequest")
    IN  <<"rest", "/", "dev-status", "/", "1.0", "/", "issue", "/", "detail",
          "?", "issueId=", ToString(issue_id), "&", "applicationType=", app_type,
          "&", "dataType=", dtype>>

jira_get_dev_status(i) ==
    /\ calls[i].pc = "idle"
    /\ \E issue_id \in IssueIds, application_type \in AppTypes, data_type \in DataTypes :
        calls' = [calls EXCEPT ![i] =
            Started("jira_get_dev_status",
                    [NoParams EXCEPT !.issue_id = issue_id,
                                     !.application_type = application_type,
                                     !.data_type = data_type],
                    JiraServer_request_build("GET",
                        DevStatusPath(issue_id, application_type, data_type), None))]
    /\ UNCHANGED <<env, github, jira>>

\* format!("rest/api/2/issue/{}", issue_key)
EditIssuePath(issue_key) == <<"rest", "/", "api", "/", "2", "/", "issue", "/", issue_key>>

jira_edit_issue(i) ==
    /\ calls[i].pc = "idle"
    /\ \E issue_key \in IssueKeys, fields \in FieldMaps :
        calls' = [calls EXCEPT ![i] =
            Started("jira_edit_issue",
                    [NoParams EXCEPT !.issue_key = issue_key, !.fields = fields],
                    JiraServer_request_build("PUT", EditIssuePath(issue_key),
                        Some(JObj(<< <<"fields", fields>> >>))))]
    /\ UNCHANGED <<env, github, jira>>

\* format!("rest/api/2/issue/{}/comment", issue_key)
AddCommentPath(issue_key) == EditIssuePath(issue_key) \o <<"/", "comment">>

jira_add_comment(i) ==
    /\ calls[i].pc = "idle"
    /\ \E issue_key \in IssueKeys, body \in CommentBodies :
        calls' = [calls EXCEPT ![i] =
            Started("jira_add_comment",
                    [NoParams EXCEPT !.issue_key = issue_key, !.body = body],
                    JiraServer_request_build("POST", AddCommentPath(issue_key),
                        Some(JObj(<< <<"body", JStr(body)>> >>))))]
    /\ UNCHANGED <<env, github, jira>>

\* ------------------------------------------ the steps after send().await
\* req.send().await fails: map_err, `?` returns the error.
SendFailed(i) ==
    /\ calls[i].pc = "awaitSend"
    /\ calls' = [calls EXCEPT ![i] =
          Finished([calls[i] EXCEPT !.fault = "send"], NoJson,
                   ErrorData_new("INTERNAL_ERROR",
                                 <<"Failed to send request: ", "<reqwest error>">>))]
    /\ UNCHANGED <<env, github, jira>>

\* req.send().await yields the response (status line and headers; the body
\* is still to be read).  get_pr_diff tests the status before it reads the
\* body; the request routines read the body first.
ResponseArrived(i, rs) ==
    /\ calls[i].pc = "awaitSend"
    /\ \E resp \in rs :
        LET c == [calls[i] EXCEPT !.resp = resp]
        IN  calls' = [calls EXCEPT ![i] =
                IF c.op = "github_get_pr_diff" /\ ~is_success(resp.status)
                THEN Finished(c, NoJson,
                         ErrorData_new("INTERNAL_ERROR",
                             <<"GitHub API Error ">> \o StatusText(resp.status)))
                ELSE [c EXCEPT !.pc = "awaitBody"]]
    /\ UNCHANGED <<env, github, jira>>

\* resp.text().await fails: the body never arrives in full.
BodyReadFailed(i) ==
    /\ calls[i].pc = "awaitBody"
    /\ calls' = [calls EXCEPT ![i] =
          Finished([calls[i] EXCEPT !.fault = "read", !.resp.body = <<>>], NoJson,
                   ErrorData_new("INTERNAL_ERROR",
                                 <<"Failed to read response body: ", "<reqwest error>">>))]
    /\ UNCHANGED <<env, github, jira>>

\* A variant with one response buffer for the whole server: the text is
\* that of the lowest-numbered invocation awaiting its body.
BodyText_shared(i) ==
    calls[CHOOSE j \in DOMAIN calls :
            /\ calls[j].pc = "awaitBody"
            /\ \A k \in DOMAIN calls : calls[k].pc = "awaitBody" => j <= k].resp.body

\* The text resp.text().await hands to invocation i.
BodyText(i) == calls[i].resp.body

\* resp.text().await succeeds; the handler runs to its return.
BodyRead(i) ==
    /\ calls[i].pc = "awaitBody"
    /\ LET c == calls[i]
           text == BodyText(i)
       IN  calls' = [calls EXCEPT ![i] =
               IF c.op = "github_get_pr_diff"
               THEN Finished(c, NoJson, CallToolResult_success(<<text>>))
               ELSE LET r == RequestOf(c.op, c.resp.status, text)
                    IN  Finished(c, r, HandlerResult(c.op, r))]
    /\ UNCHANGED <<env, github, jira>>

\* The dispatch layer takes the result; the invocation is over.
Return(i) ==
    /\ calls[i].pc = "done"
    /\ calls' = [calls EXCEPT ![i] = Idle]
    /\ UNCHANGED <<env, github, jira>>

\* ------------------------------------------------------- specifications
\* One invocation at a time, every response.
Init == InitOn({1})

Next ==
    \/ github_get_pr(1)
    \/ github_get_pr_diff(1)
    \/ github_get_issue(1)
    \/ github_get_comments(1)
    \/ jira_get_issue(1)
    \/ jira_get_dev_status(1)
    \/ jira_edit_issue(1)
    \/ jira_add_comment(1)
    \/ SendFailed(1)
    \/ ResponseArrived(1, Responses)
    \/ BodyReadFailed(1)
    \/ BodyRead(1)
    \/ Return(1)

Spec == Init /\ [][Next]_vars

\* NumCalls invocations in flight at once on the same servers.
InitConc == InitOn(1..NumCalls) /\ env.JIRA_INSTANCE_URL = None /\ IsSome(env.GITHUB_TOKEN)

NextConc ==
    \E i \in 1..NumCalls :
        \/ github_get_pr(i)
        \/ github_get_pr_diff(i)
        \/ github_get_issue(i)
        \/ github_get_comments(i)
        \/ jira_get_issue(i)
        \/ jira_get_dev_status(i)
        \/ jira_edit_issue(i)
        \/ jira_add_comment(i)
        \/ SendFailed(i)
        \/ ResponseArrived(i, ConcResponses)
        \/ BodyReadFailed(i)
        \/ BodyRead(i)
        \/ Return(i)

SpecConc == InitConc /\ [][NextConc]_vars

\* ================================================================ claims
CallIds == DOMAIN calls
JsonOps == (GithubOps \cup JiraOps) \ {"github_get_pr_diff"}

\* Invocation c has its result, and the response was received in full.
Answered(c) == c.pc = "done" /\ c.fault = "none"

\* An entry written by a bot: an object whose member "user" is an object
\* whose member "type" is the string "Bot".
IsBot(e) ==
    /\ Tag(e) = "obj"
    /\ \E m \in 1..Len(Payload(e)) :
        /\ Payload(e)[m][1] = "user"
        /\ Tag(Payload(e)[m][2]) = "obj"
        /\ \E n \in 1..Len(Payload(Payload(e)[m][2])) :
            /\ Payload(Payload(e)[m][2])[n][1] = "type"
            /\ Tag(Payload(Payload(e)[m][2])[n][2]) = "str"
            /\ Payload(Payload(Payload(e)[m][2])[n][2]) = "Bot"
NotBot(e) == ~IsBot(e)

\* C1: for every operation, a non-2xx upstream status gives an error whose
\* message contains the numeric status code and the verbatim response body.
C1_NonSuccessErrorCarriesStatusAndBody ==
    \A i \in CallIds :
        LET c == calls[i]
        IN  (Answered(c) /\ ~is_success(c.resp.status))
            => /\ c.result.kind = "Err"
               /\ Contains(c.result.message, <<ToString(c.resp.status)>>)
               /\ Contains(c.result.message, c.resp.body)

\* C2: in the request routine of both adapters a success status with an
\* empty body text yields Ok(null), never a parse error.
C2_EmptySuccessBodyYieldsNull ==
    \A i \in CallIds :
        LET c == calls[i]
        IN  (Answered(c) /\ c.op \in JsonOps /\ is_success(c.resp.status)
             /\ c.resp.body = <<>>)
            => c.json = OkJson(JNull)

\* C3: get_comments on a successful response that is an array of N entries,
\* M of them with user.type = "Bot", returns exactly the N-M entries that are
\* not by a bot (entries without user, without user.type or with a
\* non-string user.type among them), each unchanged, in their order.
C3_CommentsFilter ==
    \A i \in CallIds :
        LET c == calls[i]
            up == from_str(c.resp.body)
        IN  (Answered(c) /\ c.op = "github_get_comments" /\ is_success(c.resp.status)
             /\ up[1] /\ Tag(up[2]) = "arr")
            => /\ c.result.kind = "Ok"
               /\ Len(c.result.content) = 1
               /\ LET out == from_str(c.result.content[1])
                      items == Payload(up[2])
                      bots == {k \in 1..Len(items) : IsBot(items[k])}
                  IN  /\ out[1]
                      /\ Tag(out[2]) = "arr"
                      /\ Len(Payload(out[2])) = Len(items) - Cardinality(bots)
                      /\ Payload(out[2]) = SelectSeq(items, NotBot)

C3_Witness ==
    \E i \in CallIds :
        /\ Answered(calls[i])
        /\ calls[i].op = "github_get_comments"
        /\ calls[i].resp = [status |-> 200, body |-> ArrayText(<<1, 5>>)]
        /\ calls[i].result.kind = "Ok"

\* C4: edit_issue on a success status, whatever the response body (empty or
\* JSON), succeeds with the one payload "Issue updated successfully."; the
\* upstream body is not in the result.
C4_EditIssueFixedText ==
    \A i \in CallIds :
        LET c == calls[i]
        IN  /\ (Answered(c) /\ c.op = "jira_edit_issue" /\ is_success(c.resp.status)
                /\ (c.resp.body = <<>> \/ from_str(c.resp.body)[1]))
               => c.result.kind = "Ok"
            /\ (c.pc = "done" /\ c.op = "jira_edit_issue" /\ c.result.kind = "Ok")
               => /\ c.result.content = << <<"Issue updated successfully.">> >>
                  /\ c.resp.body # <<>> => ~Contains(c.result.content[1], c.resp.body)

C4_Witness ==
    \E i \in CallIds :
        /\ Answered(calls[i])
        /\ calls[i].op = "jira_edit_issue"
        /\ calls[i].resp = [status |-> 200, body |-> ObjectText]
        /\ calls[i].result.kind = "Ok"

\* C5 as stated: every operation but get_pr_diff and edit_issue, on a
\* success response with a well-formed JSON body, returns one text payload
\* that is valid JSON and parses to the value the upstream body parses to.
C5_OutputParsesToUpstream ==
    \A i \in CallIds :
        LET c == calls[i]
            up == from_str(c.resp.body)
        IN  (Answered(c) /\ c.op \in JsonOps \ {"jira_edit_issue"}
             /\ is_success(c.resp.status) /\ up[1])
            => /\ c.result.kind = "Ok"
               /\ Len(c.result.content) = 1
               /\ from_str(c.result.content[1]) = up

\* C5 amended: the same, except that get_comments on an upstream array
\* returns that array without the entries whose user.type is "Bot".
C5_OutputParsesToUpstreamLessBots ==
    \A i \in CallIds :
        LET c == calls[i]
            up == from_str(c.resp.body)
            expected == IF c.op = "github_get_comments" /\ Tag(up[2]) = "arr"
                        THEN JArr(SelectSeq(Payload(up[2]), NotBot))
                        ELSE up[2]
        IN  (Answered(c) /\ c.op \in JsonOps \ {"jira_edit_issue"}
             /\ is_success(c.resp.status) /\ up[1])
            => /\ c.result.kind = "Ok"
               /\ Len(c.result.content) = 1
               /\ from_str(c.result.content[1]) = <<TRUE, expected>>

C5_Witness ==
    \E i \in CallIds :
        /\ Answered(calls[i])
        /\ calls[i].op = "github_get_pr"
        /\ calls[i].resp = [status |-> 200, body |-> ArrayText(<<1, 2>>)]
        /\ calls[i].result.kind = "Ok"
        /\ calls[i].result.content[1] # calls[i].resp.body

\* C6: every request carries an Accept header of the application/json
\* family (the diff media type for get_pr_diff), Authorization: Bearer
\* <token> if and only if a credential was configured at construction, and
\* Content-Type: application/json when it has a body.
Configured(op) ==
    IF op \in GithubOps THEN OrElse(env.GITHUB_TOKEN, env.GH_TOKEN)
    ELSE OrElse(env.JIRA_PAT, env.JIRA_API_TOKEN)

Failure(c) ==
    \/ c.fault \in {"send", "read"}
    \/ c.fault = "none" /\ ~is_success(c.resp.status)
    \/ /\ c.fault = "none" /\ is_success(c.resp.status) /\ c.op \in JsonOps
       /\ c.resp.body # <<>> /\ ~from_str(c.resp.body)[1]

C7_State ==
    \A i \in CallIds :
        LET c == calls[i]
        IN  /\ c.pc # "idle" => c.sent = 1
            /\ c.pc \in {"awaitSend", "awaitBody"} => c.result = NoResult
            /\ c.pc = "done"
               => /\ c.result.kind \in {"Ok", "Err"}
                  /\ Failure(c)
                     => /\ c.result.kind = "Err"
                        /\ c.result.code = "INTERNAL_ERROR"
                        /\ c.result.content = <<>>
                  /\ c.result.kind = "Ok"
                     => Len(c.result.content) = 1 /\ c.result.message = <<>>

C7_Step ==
    \A i \in CallIds :
        /\ calls[i].pc # "idle" => calls'[i].sent <= calls[i].sent
        /\ calls[i].pc = "done" => calls'[i] \in {calls[i], Idle}

\* C7: one request per invocation; every failure is a terminal
\* INTERNAL_ERROR without payload; a result, once there, stays.
C7_SingleAttemptTerminalFailure == [](C7_State) /\ [][C7_Step]_vars

C7_Witness ==
    \E i \in CallIds :
        /\ Answered(calls[i])
        /\ calls[i].op = "jira_add_comment"
        /\ calls[i].resp = [status |-> 200, body |-> TruncatedText]
        /\ calls[i].result.kind = "Err"

\* C8: credential and base URL are those fixed at construction and no
\* operation changes them; with invocations interleaved, a step of one
\* leaves the others as they are, and each invocation's request and result
\* are those its own parameters, the configuration and its own response
\* give.
OwnRequest(c) ==
    CASE c.op \in {"github_get_pr", "github_get_pr_diff"} ->
            [method |-> "GET",
             url |-> GithubUrl(c.params.owner, c.params.repo, "pulls", c.params.number),
             headers |-> {<<"Accept", IF c.op = "github_get_pr"
                                      THEN "application/vnd.github.v3+json"
                                      ELSE "application/vnd.github.v3.diff">>}
                         \cup AuthHeader(GithubServer_new(env).token),
             body |-> None]
      [] c.op \in {"github_get_issue", "github_get_comments"} ->
            [method |-> "GET",
             url |-> GithubUrl(c.params.owner, c.params.repo, "issues", c.params.number)
                     \o (IF c.op = "github_get_comments" THEN <<"/", "comments">> ELSE <<>>),
             headers |-> {<<"Accept", "application/vnd.github.v3+json">>}
                         \cup AuthHeader(GithubServer_new(env).token),
             body |-> None]
      [] OTHER ->
            [method |-> CASE c.op = "jira_edit_issue" -> "PUT"
                          [] c.op = "jira_add_comment" -> "POST"
                          [] OTHER -> "GET",
             url |-> JiraServer_new(env).instance_url \o <<"/">> \o
                     (CASE c.op = "jira_get_issue" -> GetIssuePath(c.params.issue_key)
                        [] c.op = "jira_get_dev_status" ->
                             DevStatusPath(c.params.issue_id, c.params.application_type,
                                           c.params.data_type)
                        [] c.op = "jira_edit_issue" -> EditIssuePath(c.params.issue_key)
                        [] OTHER -> AddCommentPath(c.params.issue_key)),
             headers |-> {<<"Accept", "application/json">>,
                          <<"Content-Type", "application/json">>}
                         \cup AuthHeader(JiraServer_new(env).token),
             body |-> CASE c.op = "jira_edit_issue" ->
                             Some(JObj(<< <<"fields", c.params.fields>> >>))
                        [] c.op = "jira_add_comment" ->
                             Some(JObj(<< <<"body", JStr(c.params.body)>> >>))
                        [] OTHER -> None]

OwnResult(c) ==
    CASE c.fault = "send" ->
            ErrorData_new("INTERNAL_ERROR", <<"Failed to send request: ", "<reqwest error>">>)
      [] c.fault = "read" ->
            ErrorData_new("INTERNAL_ERROR",
                          <<"Failed to read response body: ", "<reqwest error>">>)
      [] c.fault = "none" /\ c.op = "github_get_pr_diff" ->
            IF is_success(c.resp.status) THEN CallToolResult_success(<<c.resp.body>>)
            ELSE ErrorData_new("INTERNAL_ERROR",
                               <<"GitHub API Error ">> \o StatusText(c.resp.status))
      [] OTHER -> HandlerResult(c.op, RequestOf(c.op, c.resp.status, c.resp.body))

C8_State ==
    /\ github = GithubServer_new(env)
    /\ jira = JiraServer_new(env)
    /\ \A i \in CallIds :
        /\ calls[i].pc # "idle" => calls[i].req = OwnRequest(calls[i])
        /\ calls[i].pc = "done" => calls[i].result = OwnResult(calls[i])

C8_Step ==
    /\ UNCHANGED <<env, github, jira>>
    /\ \A i, j \in CallIds : (calls'[i] # calls[i] /\ calls'[j] # calls[j]) => i = j

\* C8: the configuration is the one fixed at construction, and interleaved
\* invocations do not affect one another.
C8_FixedConfigurationIsolatedCalls == [](C8_State) /\ [][C8_Step]_vars

C8_Witness ==
    \E i, j \in CallIds :
        /\ i # j
        /\ Answered(calls[i]) /\ Answered(calls[j])
        /\ calls[i].op = "github_get_comments" /\ calls[i].resp.status = 200
        /\ calls[j].op = "jira_edit_issue" /\ calls[j].resp.status = 404
        /\ calls[i].result.kind = "Ok" /\ calls[j].result.kind = "Err"

\* C9: a base URL configured with one or more trailing slashes is normalized
\* at construction: every Jira request URL joins base and path with exactly
\* one slash, and no double slash follows the scheme separator.
NoDoubleSlash(u) == \A k \in 3..(Len(u) - 1) : ~(u[k] = "/" /\ u[k + 1] = "/")

\* C9: base and path are joined with exactly one slash, whatever the
\* number of trailing slashes configured.
C9_SingleSlashJoin ==
    \A i \in CallIds :
        LET c == calls[i]
            u == c.req.url
            n == Len(jira.instance_url)
        IN  (c.pc # "idle" /\ c.op \in JiraOps)
            => /\ n > 0
               /\ SubSeq(u, 1, n) = jira.instance_url
               /\ u[n] # "/" /\ u[n + 1] = "/" /\ u[n + 2] = "rest"
               /\ NoDoubleSlash(u)
               /\ IsSome(env.JIRA_INSTANCE_URL)
                  => \E k \in 0..Len(Unwrap(env.JIRA_INSTANCE_URL)) :
                        Unwrap(env.JIRA_INSTANCE_URL) = jira.instance_url \o Slashes(k)

C9_Witness ==
    \E i \in CallIds :
        /\ calls[i].pc # "idle"
        /\ calls[i].op = "jira_add_comment"
        /\ IsSome(env.JIRA_INSTANCE_URL)
        /\ LET s == Unwrap(env.JIRA_INSTANCE_URL)
           IN  s[Len(s)] = "/" /\ s[Len(s) - 1] = "/"

\* C10: get_dev_status: with application_type and data_type omitted the query
\* contains applicationType=github&dataType=pullrequest; each defaults on its
\* own, a supplied one is used as given, and the path is always
\* rest/dev-status/1.0/issue/detail?issueId={id}&applicationType={app}&dataType={data}.
C10_DevStatusQuery ==
    \A i \in CallIds :
        LET c == calls[i]
            app == IF c.params.application_type = None THEN "github"
                   ELSE c.params.application_type[1]
            data == IF c.params.data_type = None THEN "pullrequest"
                    ELSE c.params.data_type[1]
        IN  (c.pc # "idle" /\ c.op = "jira_get_dev_status")
            => /\ c.req.url = jira.instance_url \o
                     <<"/", "rest", "/", "dev-status", "/", "1.0", "/", "issue", "/", "detail",
                       "?", "issueId=", ToString(c.params.issue_id),
                       "&", "applicationType=", app, "&", "dataType=", data>>
               /\ (c.params.application_type = None /\ c.params.data_type = None)
                  => Contains(c.req.url, <<"applicationType=", "github", "&",
                                           "dataType=", "pullrequest">>)

C10_Witness ==
    \E i \in CallIds :
        /\ calls[i].pc # "idle"
        /\ calls[i].op = "jira_get_dev_status"
        /\ calls[i].params.application_type = Some("stash")
        /\ calls[i].params.data_type = None
        /\ Contains(calls[i].req.url, <<"applicationType=", "stash", "&",
                                        "dataType=", "pullrequest">>)

====
